---- MODULE Spec2Model ----
(***************************************************************************)
(* A model of the orchestration layer of run.py: the job set built by      *)
(* run_experiments/run_trials, the resumable execution of do_run over a    *)
(* filesystem, and the artifact discovery of expand_paths.                 *)
(*                                                                         *)
(* Python strings are sequences of one-character strings, so that          *)
(* splitting, slicing and joining are computed as the code computes them.  *)
(* A pathlib.Path is the sequence of its components.                       *)
(***************************************************************************)
EXTENDS Integers, Sequences, FiniteSets, Bags, TLC

\* ------------------------------------------------------------------------
\* Bounds of the model
\* ------------------------------------------------------------------------
MaxKeys == 2
MaxConfigFiles == 2
MaxConfigs == 2
MaxTrials == 3
MaxWorkers == 2
MaxJobs == 2
MaxPoolJobs == 3
MaxEntries == 8
MaxAccessEntries == 4
MaxRows == 2
MaxFaults == 1
MaxAggEntries == 5
MaxRoots == 2
MaxPaths == 2

\* ------------------------------------------------------------------------
\* Strings and paths
\* ------------------------------------------------------------------------
Last(s) == s[Len(s)]

Digit(d) == CASE d = 0 -> "0" [] d = 1 -> "1" [] d = 2 -> "2" [] d = 3 -> "3"
              [] d = 4 -> "4" [] d = 5 -> "5" [] d = 6 -> "6" [] d = 7 -> "7"
              [] d = 8 -> "8" [] d = 9 -> "9"

\* str(n) of a non-negative int: its decimal digits
RECURSIVE IntStr(_)
IntStr(n) == IF n < 10 THEN <<Digit(n)>> ELSE IntStr(n \div 10) \o <<Digit(n % 10)>>

\* str(v) of a configuration value: an int prints its digits, a bool prints
\* True/False, a str prints itself
\* (a value is [t: its type, n: the int or 0/1 for a bool, s: the str])
PyStr(v) == CASE v.t = "int" -> IntStr(v.n)
              [] v.t = "bool" -> IF v.n = 1 THEN <<"T", "r", "u", "e">>
                                            ELSE <<"F", "a", "l", "s", "e">>
              [] v.t = "str" -> v.s

\* sep.join(parts)
RECURSIVE Join(_, _)
Join(sep, parts) ==
    IF parts = <<>> THEN <<>>
    ELSE IF Len(parts) = 1 THEN parts[1]
    ELSE parts[1] \o sep \o Join(sep, Tail(parts))

\* s.split(sep) for a one-character separator: always at least one part
RECURSIVE Split(_, _)
Split(s, sep) ==
    IF \A i \in 1..Len(s) : s[i] # sep THEN <<s>>
    ELSE LET k == CHOOSE i \in 1..Len(s) :
                      s[i] = sep /\ \A h \in 1..(i - 1) : s[h] # sep
         IN  <<SubSeq(s, 1, k - 1)>> \o Split(SubSeq(s, k + 1, Len(s)), sep)

\* s[:-3]
DropLast3(s) == SubSeq(s, 1, Len(s) - 3)

\* pathlib: path / name. The name is split on "/" and its empty and "."
\* components are dropped, so path / "" is the path itself.
PathJoin(path, name) ==
    path \o SelectSeq(Split(name, "/"), LAMBDA c : c # <<>> /\ c # <<".">>)

\* ------------------------------------------------------------------------
\* The job set: run_experiments and run_trials
\* ------------------------------------------------------------------------
\* An override-set (one dict yielded by generate_configs) is the sequence of
\* its (key, value) items in insertion order, keys distinct.
Keys == {"learning_rate", "batch_size"}

IntV(n) == [t |-> "int", n |-> n, s |-> <<>>]
StrV(s) == [t |-> "str", n |-> 0, s |-> s]
BoolV(b) == [t |-> "bool", n |-> IF b THEN 1 ELSE 0, s |-> <<>>]

Values == { IntV(1), IntV(2), IntV(12), StrV(<<"1">>), StrV(<<"1", "_", "2">>),
            BoolV(TRUE) }

OverrideSets ==
    { ov \in UNION { [1..n -> Keys \X Values] : n \in 0..MaxKeys } :
        \A i, j \in 1..Len(ov) : i # j => ov[i][1] # ov[j][1] }

\* list(config.keys())
KeysOf(config) == [i \in 1..Len(config) |-> config[i][1]]

\* getattr(cfg, prop) on Namespace(**{**vars(_cfg), **config}) for a prop of
\* config.keys(): the override's value replaces the default
GetAttr(config, prop) ==
    LET i == CHOOSE i \in 1..Len(config) : config[i][1] = prop IN config[i][2]

\* run_trials: log_dir = base_dir / "_".join(str(getattr(cfg, prop)) ...)
TrialsDir(base_dir, config) ==
    LET name_props == KeysOf(config)
        name == Join(<<"_">>,
                     [i \in 1..Len(name_props) |-> PyStr(GetAttr(config, name_props[i]))])
    IN  PathJoin(base_dir, name)

\* do_run: log_dir = base_dir / f"run-{idx}"
RunDir(base_dir, idx) == PathJoin(base_dir, <<"r", "u", "n", "-">> \o IntStr(idx))

\* run_trials: one do_run job per trial index, each with its run directory
run_trials(base_dir, config, num_trials) ==
    [i \in 1..num_trials |-> [dir |-> RunDir(TrialsDir(base_dir, config), i - 1),
                              cfg |-> config,
                              idx |-> i - 1]]

\* out_dir = Path("log")
OutDir == << <<"l", "o", "g">> >>

\* config_path.split("/")[-1][:-3]
ConfigName(config_path) == DropLast3(Last(Split(config_path, "/")))

RECURSIVE Concat(_)
Concat(seqs) == IF seqs = <<>> THEN <<>> ELSE Head(seqs) \o Concat(Tail(seqs))

\* run_experiments: the job list, in submission order. generated[k] is what
\* generate_configs() of the k-th configuration module yields.
BuildJobs(config_paths, generated, num_trials) ==
    Concat([k \in 1..Len(config_paths) |->
        LET out_path == PathJoin(OutDir, ConfigName(config_paths[k]))
        IN  Concat([c \in 1..Len(generated[k]) |->
                run_trials(out_path, generated[k][c], num_trials)])])

\* ------------------------------------------------------------------------
\* The batch: run_experiments executing do_run jobs over the filesystem
\* ------------------------------------------------------------------------
VARIABLES
    batch,      \* the arguments of run_experiments and what generate_configs yields
    jobs,       \* the job list built from them, in submission order
    phase,      \* "running", "returned", "raised" (an exception left
                \* run_experiments) or "crashed" (the process was killed)
    exc,        \* the exception that left run_experiments, or NoExc
    pc,         \* per job: where its do_run call stands
    todo,       \* per job: the entries shutil.rmtree listed and has yet to unlink
    fs,         \* per job directory: whether it exists, and its files
    learned,    \* the jobs whose model.learn returned in the current run
    calls,      \* per job: the model.learn invocations of the current run
    entry,      \* per job: what do_run found on entry in the current run
    wrote,      \* per job: whether do_run changed the filesystem in the current run
    marked0,    \* per job: whether its directory held the marker when the run began
    prevReturned, \* whether the previous run returned with no failure and no crash
    call,       \* a call of run_trials on two override-sets of one configuration file
    ret,        \* the directories it derived for them
    tree,       \* a directory tree: its entries below the top directory
    scanned,    \* a call of expand_paths on it and the paths it returned
    noaccess,   \* the directories of the tree that may not be listed
    agg,        \* a call of aggregate_results: where it stands and what it holds
    csv,        \* the file out_dir / "data.csv"
    faults      \* the crashes and training failures that may still happen: -1
                \* when there is no limit to them

vars == <<batch, jobs, phase, exc, pc, todo, fs, learned, calls, entry, wrote,
          marked0, prevReturned, call, ret, tree, scanned,
          noaccess, agg, csv, faults>>

None == [fn |-> "none"]

\* data.csv: whether it exists, and the rows of the table it holds
NoCsv == [exists |-> FALSE, rows |-> <<>>]

\* the event file of a SummaryWriter: its name is its writer's own
EventsName(j) == "events." \o ToString(j)

\* the configuration modules and the override-sets the batches are drawn from
ConfigPathList ==
    << <<"a", "/", "x", ".", "p", "y">>,
       <<"b", "/", "x", ".", "p", "y">>,
       <<"a", "/", "y", ".", "p", "y">> >>

GeneratedList ==
    << << <<"learning_rate", IntV(1)>> >>,
       << <<"batch_size", IntV(1)>> >>,
       << <<"learning_rate", IntV(2)>> >> >>

Prefix(s, n) == SubSeq(s, 1, IF n < Len(s) THEN n ELSE Len(s))

Inputs ==
    [config_paths : {Prefix(ConfigPathList, n) : n \in 1..MaxConfigFiles},
     generated : {Prefix(GeneratedList, n) : n \in 1..MaxConfigs},
     num_trials : 1..MaxTrials,
     n_jobs : 1..MaxWorkers]

NumJobs(b) == Len(b.config_paths) * Len(b.generated) * b.num_trials

\* the batches that are run, killed and run again
Batches == {b \in Inputs : NumJobs(b) <= MaxJobs}

JobsOf(b) ==
    BuildJobs(b.config_paths, [k \in 1..Len(b.config_paths) |-> b.generated],
              b.num_trials)

J == 1..Len(jobs)
Dir(j) == jobs[j].dir
Dirs == {jobs[j].dir : j \in J}

\* what a job can raise: model.learn fails, or a filesystem call fails
ExcKinds == {"TrainingError", "OSError"}
NoExc == [job |-> 0, kind |-> "none"]
NoFiles == [n \in {} |-> 0]

\* line 197 with the test of the budget left out
SequentialSingleJob == Len(jobs) = 1

\* run_experiments, line 197: the jobs run in a plain loop
Sequential == Len(jobs) = 1 \/ batch.n_jobs = 1

Failed(j) == pc[j] \in ExcKinds
Active(j) == pc[j] \notin {"queued", "done", "killed"} \cup ExcKinds
InTraining(j) == pc[j] = "learning"

HasFile(d, name) == fs[d].exists /\ name \in DOMAIN fs[d].files

\* What is recorded of a file: the job of the current run that wrote it (0
\* for a file left by an earlier run), whether its content is complete, and,
\* for a file of an earlier run, whether the model.learn of the attempt that
\* wrote it had returned.
Tag(j, full) == [job |-> j, full |-> full, ok |-> FALSE]

Aged(tag) == [job |-> 0, full |-> tag.full,
              ok |-> IF tag.job = 0 THEN tag.ok ELSE tag.job \in learned]

WriteFile(f, d, name, tag) ==
    [f EXCEPT ![d].files =
        [n \in (DOMAIN f[d].files) \cup {name} |->
            IF n = name THEN tag ELSE f[d].files[n]]]

Unlink(f, d, name) ==
    [f EXCEPT ![d].files = [n \in (DOMAIN f[d].files) \ {name} |-> f[d].files[n]]]

InitOf(b) ==
    /\ batch = b
    /\ jobs = JobsOf(batch)
    /\ phase = "running"
    /\ exc = NoExc
    /\ pc = [j \in 1..Len(jobs) |-> "queued"]
    /\ todo = [j \in 1..Len(jobs) |-> {}]
    /\ fs = [d \in {jobs[j].dir : j \in 1..Len(jobs)} |->
                [exists |-> FALSE, files |-> NoFiles]]
    /\ learned = {}
    /\ calls = [j \in 1..Len(jobs) |-> 0]
    /\ entry = [j \in 1..Len(jobs) |-> "none"]
    /\ wrote = [j \in 1..Len(jobs) |-> FALSE]
    /\ marked0 = [j \in 1..Len(jobs) |-> FALSE]
    /\ prevReturned = FALSE
    /\ call = None
    /\ ret = None
    /\ tree = {}
    /\ scanned = None
    /\ noaccess = {}
    /\ agg = None
    /\ csv = NoCsv

Init == (\E b \in Batches : InitOf(b)) /\ faults = -1

FrameButFaults ==
    UNCHANGED <<batch, jobs, marked0, prevReturned, call, ret, tree, scanned,
                noaccess, agg, csv>>

Frame == FrameButFaults /\ UNCHANGED faults

\* a crash or a training failure happens while one may still happen
Fault ==
    /\ faults # 0
    /\ faults' = IF faults > 0 THEN faults - 1 ELSE faults

\* a pool that starts a job whatever the number of running jobs
FreeWorkerAlways == TRUE

\* the worker pool has a free worker for one more job
FreeWorker == Cardinality({k \in J : Active(k)}) < batch.n_jobs

\* A job is started: by the loop of line 198 once the job before it has
\* returned, or by Parallel (line 201) in submission order on a free worker.
Start(j) ==
    /\ phase = "running"
    /\ pc[j] = "queued"
    /\ IF Sequential
       THEN \A k \in 1..(j - 1) : pc[k] = "done"
       ELSE (\A k \in 1..(j - 1) : pc[k] # "queued") /\ FreeWorker
    /\ pc' = [pc EXCEPT ![j] = "l140"]
    /\ UNCHANGED <<todo, fs, learned, calls, entry, wrote, phase, exc>>
    /\ Frame

\* An exception leaves do_run. In the loop of line 198 it leaves
\* run_experiments at once; under Parallel the batch goes on until BatchRaise.
Raises(j, kind) ==
    /\ pc' = [pc EXCEPT ![j] = kind]
    /\ todo' = [todo EXCEPT ![j] = {}]
    /\ IF Sequential
       THEN phase' = "raised" /\ exc' = [job |-> j, kind |-> kind]
       ELSE UNCHANGED <<phase, exc>>

\* line 140-141 with the return left out: the call goes on to line 142
CheckCompletedNoReturn(j) ==
    /\ phase = "running"
    /\ pc[j] = "l140"
    /\ pc' = [pc EXCEPT ![j] = "l142"]
    /\ entry' = [entry EXCEPT ![j] =
                    IF HasFile(Dir(j), "completed") THEN "marked" ELSE @]
    /\ UNCHANGED <<todo, fs, learned, calls, wrote, phase, exc>>
    /\ UNCHANGED <<batch, jobs, marked0, prevReturned, call, ret, tree, scanned,
          noaccess, agg, csv, faults>>

\* line 140-141: if (log_dir / "completed").exists(): return
CheckCompleted(j) ==
    /\ phase = "running"
    /\ pc[j] = "l140"
    /\ IF HasFile(Dir(j), "completed")
       THEN /\ pc' = [pc EXCEPT ![j] = "done"]
            /\ entry' = [entry EXCEPT ![j] = "marked"]
       ELSE /\ pc' = [pc EXCEPT ![j] = "l142"]
            /\ UNCHANGED entry
    /\ UNCHANGED <<todo, fs, learned, calls, wrote, phase, exc>>
    /\ Frame

\* line 142-143 with the rmtree left out: the old tree is written into
CheckExistsKeepsTree(j) ==
    /\ phase = "running"
    /\ pc[j] = "l142"
    /\ pc' = [pc EXCEPT ![j] = "l144"]
    /\ entry' = [entry EXCEPT ![j] =
                    IF @ # "none" THEN @
                    ELSE IF fs[Dir(j)].exists THEN "stale" ELSE "fresh"]
    /\ UNCHANGED <<todo, fs, learned, calls, wrote, phase, exc>>
    /\ UNCHANGED <<batch, jobs, marked0, prevReturned, call, ret, tree, scanned,
          noaccess, agg, csv, faults>>

\* line 142-143: elif log_dir.exists(): shutil.rmtree(log_dir), which first
\* lists the entries of the directory
CheckExists(j) ==
    /\ phase = "running"
    /\ pc[j] = "l142"
    /\ IF fs[Dir(j)].exists
       THEN /\ pc' = [pc EXCEPT ![j] = "l143"]
            /\ todo' = [todo EXCEPT ![j] = DOMAIN fs[Dir(j)].files]
            /\ entry' = [entry EXCEPT ![j] = IF @ = "none" THEN "stale" ELSE @]
       ELSE /\ pc' = [pc EXCEPT ![j] = "l144"]
            /\ entry' = [entry EXCEPT ![j] = IF @ = "none" THEN "fresh" ELSE @]
            /\ UNCHANGED todo
    /\ UNCHANGED <<fs, learned, calls, wrote, phase, exc>>
    /\ Frame

\* shutil.rmtree unlinks one listed entry; an entry that is gone makes it raise
RmtreeUnlink(j) ==
    /\ phase = "running"
    /\ pc[j] = "l143"
    /\ \E name \in todo[j] :
        IF HasFile(Dir(j), name)
        THEN /\ fs' = Unlink(fs, Dir(j), name)
             /\ todo' = [todo EXCEPT ![j] = @ \ {name}]
             /\ wrote' = [wrote EXCEPT ![j] = TRUE]
             /\ UNCHANGED <<pc, phase, exc>>
        ELSE /\ Raises(j, "OSError")
             /\ UNCHANGED <<fs, wrote>>
    /\ UNCHANGED <<learned, calls, entry>>
    /\ Frame

\* shutil.rmtree removes the emptied directory; it raises when the directory
\* is gone or holds an entry that was not listed
RmtreeRmdir(j) ==
    /\ phase = "running"
    /\ pc[j] = "l143"
    /\ todo[j] = {}
    /\ IF fs[Dir(j)].exists /\ DOMAIN fs[Dir(j)].files = {}
       THEN /\ fs' = [fs EXCEPT ![Dir(j)].exists = FALSE]
            /\ pc' = [pc EXCEPT ![j] = "l144"]
            /\ wrote' = [wrote EXCEPT ![j] = TRUE]
            /\ UNCHANGED <<todo, phase, exc>>
       ELSE /\ Raises(j, "OSError")
            /\ UNCHANGED <<fs, wrote>>
    /\ UNCHANGED <<learned, calls, entry>>
    /\ Frame

\* line 144: SummaryWriter(log_dir=log_dir) makes the directory if it is
\* missing and opens its event file in it
MakeWriter(j) ==
    /\ phase = "running"
    /\ pc[j] = "l144"
    /\ fs' = WriteFile([fs EXCEPT ![Dir(j)].exists = TRUE], Dir(j), EventsName(j),
                       Tag(j, TRUE))
    /\ pc' = [pc EXCEPT ![j] = "l145"]
    /\ wrote' = [wrote EXCEPT ![j] = TRUE]
    /\ UNCHANGED <<todo, learned, calls, entry, phase, exc>>
    /\ Frame

\* open(..., "w") creates or truncates the file; it raises when the
\* directory is missing
OpenFile(j, at, name, next) ==
    /\ phase = "running"
    /\ pc[j] = at
    /\ IF fs[Dir(j)].exists
       THEN /\ fs' = WriteFile(fs, Dir(j), name, Tag(j, FALSE))
            /\ pc' = [pc EXCEPT ![j] = next]
            /\ wrote' = [wrote EXCEPT ![j] = TRUE]
            /\ UNCHANGED <<todo, phase, exc>>
       ELSE /\ Raises(j, "OSError")
            /\ UNCHANGED <<fs, wrote>>
    /\ UNCHANGED <<learned, calls, entry>>
    /\ Frame

\* the body of the with block writes and the file is closed: the content is
\* complete. An unlinked open file is written without error and stays gone.
CloseFile(j, at, name, next) ==
    /\ phase = "running"
    /\ pc[j] = at
    /\ fs' = IF HasFile(Dir(j), name) /\ fs[Dir(j)].files[name].job = j
             THEN WriteFile(fs, Dir(j), name, Tag(j, TRUE))
             ELSE fs
    /\ pc' = [pc EXCEPT ![j] = next]
    /\ UNCHANGED <<todo, learned, calls, entry, wrote, phase, exc>>
    /\ Frame

\* line 145: with (log_dir / "config.txt").open("w") as text_fo
OpenConfigTxt(j) == OpenFile(j, "l145", "config.txt", "l146")
\* line 146: text_fo.write(str(cfg))
WriteConfigTxt(j) == CloseFile(j, "l146", "config.txt", "l147")
\* line 147: with (log_dir / "config.pkl").open("wb") as binary_fo
OpenConfigPkl(j) == OpenFile(j, "l147", "config.pkl", "l148")
\* line 148: pkl.dump(cfg, binary_fo)
DumpConfigPkl(j) == CloseFile(j, "l148", "config.pkl", "l165")

\* line 165: model.learn(...) is called
LearnCall(j) ==
    /\ phase = "running"
    /\ pc[j] = "l165"
    /\ pc' = [pc EXCEPT ![j] = "learning"]
    /\ calls' = [calls EXCEPT ![j] = @ + 1]
    /\ UNCHANGED <<todo, fs, learned, entry, wrote, phase, exc>>
    /\ Frame

\* during model.learn the logging callback saves the best model so far
HookSave(j) ==
    /\ phase = "running"
    /\ pc[j] = "learning"
    /\ IF fs[Dir(j)].exists
       THEN /\ fs' = WriteFile(fs, Dir(j), "best.pt", Tag(j, TRUE))
            /\ wrote' = [wrote EXCEPT ![j] = TRUE]
            /\ UNCHANGED <<pc, todo, phase, exc>>
       ELSE /\ Raises(j, "OSError")
            /\ UNCHANGED <<fs, wrote>>
    /\ UNCHANGED <<learned, calls, entry>>
    /\ Frame

\* model.learn returns
LearnReturn(j) ==
    /\ phase = "running"
    /\ pc[j] = "learning"
    /\ pc' = [pc EXCEPT ![j] = "l169"]
    /\ learned' = learned \cup {j}
    /\ UNCHANGED <<todo, fs, calls, entry, wrote, phase, exc>>
    /\ Frame

\* model.learn raises in a do_run that writes the marker in a finally clause
LearnRaiseMarks(j) ==
    /\ phase = "running"
    /\ pc[j] = "learning"
    /\ Fault
    /\ pc' = [pc EXCEPT ![j] = "TrainingError"]
    /\ todo' = [todo EXCEPT ![j] = {}]
    /\ IF Len(jobs) = 1 \/ batch.n_jobs = 1
       THEN phase' = "raised" /\ exc' = [job |-> j, kind |-> "TrainingError"]
       ELSE UNCHANGED <<phase, exc>>
    /\ fs' = IF fs[Dir(j)].exists
             THEN [fs EXCEPT ![Dir(j)].files =
                     [n \in (DOMAIN fs[Dir(j)].files) \cup {"completed"} |->
                        IF n = "completed" THEN [job |-> j, full |-> TRUE, ok |-> FALSE]
                        ELSE fs[Dir(j)].files[n]]]
             ELSE fs
    /\ UNCHANGED <<learned, calls, entry, wrote>>
    /\ UNCHANGED <<batch, jobs, marked0, prevReturned, call, ret, tree, scanned,
          noaccess, agg, csv>>

\* model.learn raises: nothing in do_run catches it
LearnRaise(j) ==
    /\ phase = "running"
    /\ pc[j] = "learning"
    /\ Fault
    /\ Raises(j, "TrainingError")
    /\ UNCHANGED <<fs, learned, calls, entry, wrote>>
    /\ FrameButFaults

\* line 169: with (log_dir / "completed").open("w"): the empty marker
WriteMarker(j) ==
    /\ phase = "running"
    /\ pc[j] = "l169"
    /\ IF fs[Dir(j)].exists
       THEN /\ fs' = WriteFile(fs, Dir(j), "completed", Tag(j, TRUE))
            /\ pc' = [pc EXCEPT ![j] = "done"]
            /\ wrote' = [wrote EXCEPT ![j] = TRUE]
            /\ UNCHANGED <<todo, phase, exc>>
       ELSE /\ Raises(j, "OSError")
            /\ UNCHANGED <<fs, wrote>>
    /\ UNCHANGED <<learned, calls, entry>>
    /\ Frame

\* every job has returned: run_experiments returns
BatchReturn ==
    /\ phase = "running"
    /\ \A j \in J : pc[j] = "done"
    /\ phase' = "returned"
    /\ UNCHANGED <<exc, pc, todo, fs, learned, calls, entry, wrote>>
    /\ Frame

\* line 201: Parallel re-raises the exception of a failed job; the jobs that
\* are still running then are terminated with its workers
BatchRaise ==
    /\ phase = "running"
    /\ ~Sequential
    /\ \E j \in J :
        /\ Failed(j)
        /\ exc' = [job |-> j, kind |-> pc[j]]
    /\ phase' = "raised"
    /\ pc' = [k \in J |-> IF Active(k) THEN "killed" ELSE pc[k]]
    /\ todo' = [k \in J |-> {}]
    /\ UNCHANGED <<fs, learned, calls, entry, wrote>>
    /\ Frame

\* the process is killed at any point of the batch
Crash ==
    /\ phase = "running"
    /\ Fault
    /\ phase' = "crashed"
    /\ pc' = [k \in J |-> IF Active(k) THEN "killed" ELSE pc[k]]
    /\ todo' = [k \in J |-> {}]
    /\ UNCHANGED <<exc, fs, learned, calls, entry, wrote>>
    /\ FrameButFaults

\* the same command is invoked again
Rerun ==
    /\ phase # "running"
    /\ phase' = "running"
    /\ exc' = NoExc
    /\ pc' = [j \in J |-> "queued"]
    /\ calls' = [j \in J |-> 0]
    /\ entry' = [j \in J |-> "none"]
    /\ wrote' = [j \in J |-> FALSE]
    /\ marked0' = [j \in J |-> HasFile(Dir(j), "completed")]
    /\ prevReturned' = (phase = "returned")
    /\ fs' = [d \in Dirs |->
                [fs[d] EXCEPT !.files = [n \in DOMAIN @ |-> Aged(@[n])]]]
    /\ learned' = {}
    /\ UNCHANGED <<batch, jobs, todo, call, ret, tree, scanned,
          noaccess, agg, csv, faults>>

Next ==
    \/ \E j \in J : Start(j)
    \/ \E j \in J : CheckCompleted(j)
    \/ \E j \in J : CheckExists(j)
    \/ \E j \in J : RmtreeUnlink(j)
    \/ \E j \in J : RmtreeRmdir(j)
    \/ \E j \in J : MakeWriter(j)
    \/ \E j \in J : OpenConfigTxt(j)
    \/ \E j \in J : WriteConfigTxt(j)
    \/ \E j \in J : OpenConfigPkl(j)
    \/ \E j \in J : DumpConfigPkl(j)
    \/ \E j \in J : LearnCall(j)
    \/ \E j \in J : HookSave(j)
    \/ \E j \in J : LearnReturn(j)
    \/ \E j \in J : LearnRaise(j)
    \/ \E j \in J : WriteMarker(j)
    \/ BatchReturn
    \/ BatchRaise
    \/ Crash
    \/ Rerun

Spec == Init /\ [][Next]_vars

\* One invocation of run_experiments that is not killed, over larger batches
PoolBatches == {b \in Inputs : NumJobs(b) <= MaxPoolJobs}

InitPool == (\E b \in PoolBatches : InitOf(b)) /\ faults = -1

NextPool ==
    \/ \E j \in J : Start(j)
    \/ \E j \in J : CheckCompleted(j)
    \/ \E j \in J : CheckExists(j)
    \/ \E j \in J : RmtreeUnlink(j)
    \/ \E j \in J : RmtreeRmdir(j)
    \/ \E j \in J : MakeWriter(j)
    \/ \E j \in J : OpenConfigTxt(j)
    \/ \E j \in J : WriteConfigTxt(j)
    \/ \E j \in J : OpenConfigPkl(j)
    \/ \E j \in J : DumpConfigPkl(j)
    \/ \E j \in J : LearnCall(j)
    \/ \E j \in J : HookSave(j)
    \/ \E j \in J : LearnReturn(j)
    \/ \E j \in J : LearnRaise(j)
    \/ \E j \in J : WriteMarker(j)
    \/ BatchReturn
    \/ BatchRaise

SpecPool == InitPool /\ [][NextPool]_vars

\* The batch invoked again and again, with a limited number of crashes and
\* training failures, each worker scheduled again and again
InitLive == (\E b \in Batches : InitOf(b)) /\ faults = MaxFaults

\* a step of the do_run call of job j, or its start
JobStep(j) ==
    /\ j \in J
    /\ \/ Start(j)
       \/ CheckCompleted(j)
       \/ CheckExists(j)
       \/ RmtreeUnlink(j)
       \/ RmtreeRmdir(j)
       \/ MakeWriter(j)
       \/ OpenConfigTxt(j)
       \/ WriteConfigTxt(j)
       \/ OpenConfigPkl(j)
       \/ DumpConfigPkl(j)
       \/ LearnCall(j)
       \/ LearnReturn(j)
       \/ WriteMarker(j)

Fairness ==
    /\ \A j \in 1..MaxJobs : WF_vars(JobStep(j))
    /\ WF_vars(BatchReturn)
    /\ WF_vars(BatchRaise)
    /\ WF_vars(Rerun)

SpecLive == InitLive /\ [][Next]_vars /\ Fairness

\* ------------------------------------------------------------------------
\* run_trials on two override-sets of one configuration file
\* ------------------------------------------------------------------------
NoBatch == [config_paths |-> <<>>, generated |-> <<>>, num_trials |-> 0, n_jobs |-> 0]

\* no batch is running
InitNoBatch ==
    /\ batch = NoBatch
    /\ jobs = <<>>
    /\ phase = "idle"
    /\ exc = NoExc
    /\ pc = <<>>
    /\ todo = <<>>
    /\ fs = NoFiles
    /\ learned = {}
    /\ calls = <<>>
    /\ entry = <<>>
    /\ wrote = <<>>
    /\ marked0 = <<>>
    /\ prevReturned = FALSE
    /\ faults = -1

NoBatchFrame ==
    UNCHANGED <<batch, jobs, phase, exc, pc, todo, fs, learned, calls, entry, wrote,
                marked0, prevReturned, faults>>

InitNaming ==
    /\ InitNoBatch
    /\ \E a \in OverrideSets, b \in OverrideSets :
          call = [fn |-> "run_trials", config_path |-> ConfigPathList[1],
                  a |-> a, b |-> b]
    /\ ret = None
    /\ tree = {}
    /\ scanned = None
    /\ noaccess = {}
    /\ agg = None
    /\ csv = NoCsv

\* the directory of the first trial job that run_trials builds for a config
FirstJobDir(config_path, config) ==
    run_trials(PathJoin(OutDir, ConfigName(config_path)), config, 1)[1].dir

NameTrials ==
    /\ call.fn = "run_trials"
    /\ ret = None
    /\ ret' = [fn |-> "run_trials",
               dirs |-> <<FirstJobDir(call.config_path, call.a),
                          FirstJobDir(call.config_path, call.b)>>]
    /\ UNCHANGED <<call, tree, scanned, noaccess, agg, csv>>
    /\ NoBatchFrame

NextNaming == NameTrials

SpecNaming == InitNaming /\ [][NextNaming]_vars

\* the items of a dict
Items(config) == {config[i] : i \in 1..Len(config)}

\* C7: two override-sets of one configuration file that differ in a key or
\* in a value are given different directories.
C7_NamingInjective ==
    (ret.fn = "run_trials" /\ Items(call.a) # Items(call.b)) =>
        ret.dirs[1] # ret.dirs[2]

\* ------------------------------------------------------------------------
\* patch_old_configs on a persisted configuration
\* ------------------------------------------------------------------------
\* A Namespace is the function from the names of its attributes to their
\* values; a value is written as Python prints it.
HasAttr(cfg, name) == name \in DOMAIN cfg

SetAttr(cfg, name, value) ==
    [n \in (DOMAIN cfg) \cup {name} |-> IF n = name THEN value ELSE cfg[n]]

\* if not hasattr(cfg, test): cfg.<name> = value
Backfill(cfg, test, name, value) ==
    IF ~HasAttr(cfg, test) THEN SetAttr(cfg, name, value) ELSE cfg

\* line 209-210: if not hasattr(cfg, "bottleneck_temperature"): cfg.action_noise = 0.0
BackfillActionNoise(cfg) == Backfill(cfg, "bottleneck_temperature", "action_noise", "0.0")

patch_old_configs(cfg) ==
    LET c1 == Backfill(cfg, "obs_type", "obs_type", "vector")
        c2 == Backfill(c1, "policy_activation", "policy_activation", "tanh")
        c3 == BackfillActionNoise(c2)
        c4 == Backfill(c3, "bottleneck_temperature", "bottleneck_temperature", "1.0")
        c5 == Backfill(c4, "reward_structure", "reward_structure", "proximity")
        c6 == Backfill(c5, "n_proc_alg", "n_proc_alg", "1")
        c7 == Backfill(c6, "discrete_action", "discrete_action", "False")
    IN  c7

\* the attributes make_env_kwargs reads
EnvKwargsAttrs ==
    {"obs_type", "action_noise", "reward_structure", "discrete_action", "pixel_space",
     "env_lsize", "single_step", "action_scale", "max_step_scale"}

\* the attributes every persisted configuration has
BaseConfig ==
    [pixel_space |-> "False", env_lsize |-> "7", single_step |-> "False",
     action_scale |-> "8", max_step_scale |-> "4.5"]

\* the attributes of later versions, with the values a persisted
\* configuration can hold for them: the backfill value first
LaterAttrs ==
    [obs_type |-> <<"vector", "direction">>,
     policy_activation |-> <<"tanh", "relu">>,
     action_noise |-> <<"0.0", "0.5">>,
     bottleneck_temperature |-> <<"1.0", "2.0">>,
     reward_structure |-> <<"proximity", "constant">>,
     n_proc_alg |-> <<"1", "4">>,
     discrete_action |-> <<"False", "True">>]

\* the persisted configurations: each later attribute is missing or holds
\* one of its values
OldConfigs ==
    UNION { { [n \in (DOMAIN BaseConfig) \cup present |->
                 IF n \in DOMAIN BaseConfig THEN BaseConfig[n]
                 ELSE LaterAttrs[n][pick[n]]] :
              pick \in [present -> 1..2] } :
            present \in SUBSET (DOMAIN LaterAttrs) }

InitPatch ==
    /\ InitNoBatch
    /\ \E c \in OldConfigs : call = [fn |-> "patch_old_configs", cfg |-> c]
    /\ ret = None
    /\ tree = {}
    /\ scanned = None
    /\ noaccess = {}
    /\ agg = None
    /\ csv = NoCsv

\* collect_metrics, line 311: cfg = patch_old_configs(cfg)
PatchOldConfigs ==
    /\ call.fn = "patch_old_configs"
    /\ ret = None
    /\ ret' = [fn |-> "patch_old_configs", cfg |-> patch_old_configs(call.cfg),
               raised |-> FALSE]
    /\ UNCHANGED <<call, tree, scanned, noaccess, agg, csv>>
    /\ NoBatchFrame

\* collect_metrics, line 312: make_env_kwargs(cfg) reads its attributes; a
\* missing one raises AttributeError
MakeEnvKwargs ==
    /\ ret.fn = "patch_old_configs"
    /\ ret' = [fn |-> "make_env_kwargs", cfg |-> ret.cfg,
               raised |-> \E n \in EnvKwargsAttrs : ~HasAttr(ret.cfg, n)]
    /\ UNCHANGED <<call, tree, scanned, noaccess, agg, csv>>
    /\ NoBatchFrame

NextPatch ==
    \/ PatchOldConfigs
    \/ MakeEnvKwargs

SpecPatch == InitPatch /\ [][NextPatch]_vars

\* C14: after patch_old_configs every attribute of the later versions is
\* present, an attribute that was missing holds its backfill value, and
\* make_env_kwargs does not fail.
C14_BackfillsEveryMissingField ==
    ret.fn \in {"patch_old_configs", "make_env_kwargs"} =>
        /\ \A n \in DOMAIN LaterAttrs :
              /\ HasAttr(ret.cfg, n)
              /\ ~HasAttr(call.cfg, n) => ret.cfg[n] = LaterAttrs[n][1]
        /\ ~ret.raised

\* C18: patch_old_configs leaves every attribute that was present with the
\* value it had, and applying it to its result changes nothing.
C18_PresentFieldsKept ==
    ret.fn = "patch_old_configs" =>
        /\ \A n \in DOMAIN call.cfg : HasAttr(ret.cfg, n) /\ ret.cfg[n] = call.cfg[n]
        /\ patch_old_configs(ret.cfg) = ret.cfg

\* ------------------------------------------------------------------------
\* The summary of data.csv: main of expl-results/discrete_action/run.py
\* ------------------------------------------------------------------------
\* A row of data.csv is kept by the two columns the summary groups on.
GroupKeys == [discretize : BOOLEAN, action_scale : {"2", "8"}]

RECURSIVE SeqsUpTo(_, _)
SeqsUpTo(S, n) ==
    IF n = 0 THEN {<<>>}
    ELSE LET shorter == SeqsUpTo(S, n - 1)
         IN  shorter \cup {Append(q, x) : q \in {r \in shorter : Len(r) = n - 1}, x \in S}

DataFiles == {NoCsv} \cup {[exists |-> TRUE, rows |-> r] : r \in SeqsUpTo(GroupKeys, MaxRows)}

NoTable == [op |-> "none", groups |-> {}]

InitSummary ==
    /\ InitNoBatch
    /\ \E sd \in BOOLEAN, se \in BOOLEAN, lx \in BOOLEAN :
          call = [fn |-> "main", stddev |-> sd, stderr |-> se, latex |-> lx]
    /\ ret = [fn |-> "main", at |-> "l8", exc |-> "none", op |-> "none",
              df |-> <<>>, table |-> NoTable, printed |-> "none"]
    /\ tree = {}
    /\ scanned = None
    /\ noaccess = {}
    /\ agg = None
    /\ csv \in DataFiles

SummaryFrame == UNCHANGED <<call, tree, scanned, noaccess, agg, csv>> /\ NoBatchFrame

\* line 8-10: df = pd.read_csv(path / "data.csv"), which raises when the
\* file is missing; the groups and the fields are set up
ReadCsv ==
    /\ ret.fn = "main" /\ ret.at = "l8"
    /\ ret' = IF csv.exists
              THEN [ret EXCEPT !.at = "l11", !.df = csv.rows]
              ELSE [ret EXCEPT !.at = "raised", !.exc = "FileNotFoundError"]
    /\ SummaryFrame

\* line 11-16: the reduction is chosen
ChooseOp ==
    /\ ret.fn = "main" /\ ret.at = "l11"
    /\ ret' = IF call.stddev THEN [ret EXCEPT !.at = "l17", !.op = "std"]
              ELSE IF call.stderr
                   THEN [ret EXCEPT !.at = "raised", !.exc = "NotImplementedError"]
              ELSE [ret EXCEPT !.at = "l17", !.op = "median"]
    /\ SummaryFrame

\* line 17: table = getattr(groups, op)()[fields].round(2)
ComputeTable ==
    /\ ret.fn = "main" /\ ret.at = "l17"
    /\ ret' = [ret EXCEPT !.at = "l18",
                          !.table = [op |-> ret.op,
                                     groups |-> {ret.df[i] : i \in 1..Len(ret.df)}]]
    /\ SummaryFrame

\* line 18-21: the table is printed, as LaTeX or plain
PrintTable ==
    /\ ret.fn = "main" /\ ret.at = "l18"
    /\ ret' = [ret EXCEPT !.at = "returned",
                          !.printed = IF call.latex THEN "latex" ELSE "plain"]
    /\ SummaryFrame

NextSummary ==
    \/ ReadCsv
    \/ ChooseOp
    \/ ComputeTable
    \/ PrintTable

SpecSummary == InitSummary /\ [][NextSummary]_vars

\* C15: when the standard error is requested, whatever the other options,
\* no reduction is chosen, no table is computed or printed, and the call
\* ends by raising; with data.csv in place it raises the not-implemented
\* error.
C15_StderrFailsFast ==
    (ret.fn = "main" /\ call.stderr) =>
        /\ ret.op = "none" /\ ret.table = NoTable /\ ret.printed = "none"
        /\ ret.at # "returned"
        /\ (ret.at = "raised" /\ csv.exists) => ret.exc = "NotImplementedError"
        /\ ret.at \in {"l8", "l11", "raised"}

\* ------------------------------------------------------------------------
\* expand_paths over a directory tree
\* ------------------------------------------------------------------------
\* An entry of the tree is [path: the names from the top directory down,
\* dir: whether it is a directory]. The top directory is the path <<>>.
DirNames == {"a", "best.pt"}
FileNames == {"best.pt", "config.pkl"}

Paths(t) == {e.path : e \in t}

\* Path.is_dir()
IsDir(t, p) == p = <<>> \/ [path |-> p, dir |-> TRUE] \in t

\* root.iterdir()
Contents(t, root) ==
    {x \in Paths(t) : Len(x) = Len(root) + 1 /\ SubSeq(x, 1, Len(root)) = root}

\* line 349 with a test that one of the two names suffices
IsMatchEither(names) == Cardinality({"best.pt", "config.pkl"} \cap names) >= 1

\* line 349: len({"best.pt", "config.pkl"} & names) == 2
IsMatch(names) == Cardinality({"best.pt", "config.pkl"} \cap names) = 2

\* What a call gives: the list it returns, kept as a bag (set iteration gives
\* it no order), or the exception that leaves it (then nothing is returned).
Returned(paths) == [raised |-> FALSE, paths |-> paths]
RaisedError == [raised |-> TRUE, paths |-> EmptyBag]

\* paths.extend(...): an exception in the generator leaves the call
Extend(r, q) == IF r.raised \/ q.raised THEN RaisedError
                ELSE Returned(r.paths (+) q.paths)

\* na is the set of directories whose listing the system denies:
\* root.iterdir() raises PermissionError on them, and nothing catches it
RECURSIVE expand_paths(_, _, _)
RECURSIVE ExpandAll(_, _, _)
expand_paths(t, na, root) ==
    IF ~IsDir(t, root) THEN Returned(EmptyBag)
    ELSE IF root \in na THEN RaisedError
    ELSE LET contents == Contents(t, root)
             names == {Last(x) : x \in contents}
             paths == IF IsMatch(names)
                      THEN SetToBag({root})
                      ELSE EmptyBag
         IN  Extend(Returned(paths), ExpandAll(t, na, contents))

\* x for c in contents for x in expand_paths(c)
ExpandAll(t, na, contents) ==
    IF contents = {} THEN Returned(EmptyBag)
    ELSE LET c == CHOOSE c \in contents : TRUE
         IN  Extend(expand_paths(t, na, c), ExpandAll(t, na, contents \ {c}))

InitScan ==
    /\ InitNoBatch
    /\ call = None
    /\ ret = None
    /\ tree = {}
    /\ scanned = None
    /\ noaccess = {}
    /\ agg = None
    /\ csv = NoCsv

\* the tree is built, up to n entries: a directory is made in a directory
MkdirWithin(n) ==
    /\ scanned = None
    /\ agg = None
    /\ Cardinality(tree) < n
    /\ \E p \in Paths(tree) \cup {<<>>}, name \in DirNames :
        /\ IsDir(tree, p)
        /\ Append(p, name) \notin Paths(tree)
        /\ tree' = tree \cup {[path |-> Append(p, name), dir |-> TRUE]}
    /\ UNCHANGED <<call, ret, scanned, noaccess, agg, csv>>
    /\ NoBatchFrame

\* the tree is built, up to n entries: a file is made in a directory
TouchWithin(n) ==
    /\ scanned = None
    /\ agg = None
    /\ Cardinality(tree) < n
    /\ \E p \in Paths(tree) \cup {<<>>}, name \in FileNames :
        /\ IsDir(tree, p)
        /\ Append(p, name) \notin Paths(tree)
        /\ tree' = tree \cup {[path |-> Append(p, name), dir |-> FALSE]}
    /\ UNCHANGED <<call, ret, scanned, noaccess, agg, csv>>
    /\ NoBatchFrame

Mkdir == MkdirWithin(MaxEntries)
Touch == TouchWithin(MaxEntries)

\* expand_paths is called on one of the given paths
ScanFrom(roots) ==
    /\ scanned = None
    /\ agg = None
    /\ \E root \in roots :
        LET r == expand_paths(tree, noaccess, root)
        IN  scanned' = [fn |-> "expand_paths", root |-> root,
                        raised |-> r.raised, paths |-> r.paths]
    /\ UNCHANGED <<call, ret, tree, noaccess, agg, csv>>
    /\ NoBatchFrame

\* expand_paths is called on a path of the tree
Scan == ScanFrom(Paths(tree) \cup {<<>>})

NextScan ==
    \/ Mkdir
    \/ Touch
    \/ Scan

SpecScan == InitScan /\ [][NextScan]_vars

\* A tree in which listings are denied, and calls on paths that do not exist
MkdirFew == MkdirWithin(MaxAccessEntries)
TouchFew == TouchWithin(MaxAccessEntries)

\* the listing of a directory of the tree is denied (its read permission is
\* taken away)
Chmod ==
    /\ scanned = None
    /\ agg = None
    /\ \E p \in Paths(tree) \cup {<<>>} :
        /\ IsDir(tree, p)
        /\ p \notin noaccess
        /\ noaccess' = noaccess \cup {p}
    /\ UNCHANGED <<call, ret, tree, scanned, agg, csv>>
    /\ NoBatchFrame

\* expand_paths is called on a path of the tree or on a path that does not exist
ScanAnyPath == ScanFrom(Paths(tree) \cup {<<>>, <<"missing">>})

NextAccess ==
    \/ MkdirFew
    \/ TouchFew
    \/ Chmod
    \/ ScanAnyPath

SpecAccess == InitScan /\ [][NextAccess]_vars

\* ------------------------------------------------------------------------
\* aggregate_results over a directory tree
\* ------------------------------------------------------------------------
MkdirSome == MkdirWithin(MaxAggEntries)
TouchSome == TouchWithin(MaxAggEntries)

\* the lists a bag can be returned as
SeqsOfBag(b) ==
    {q \in [1..BagCardinality(b) -> BagToSet(b)] :
        \A x \in BagToSet(b) : Cardinality({i \in DOMAIN q : q[i] = x}) = CopiesIn(x, b)}

\* line 356: paths = [x for p in path_strs for x in expand_paths(p)], as the
\* set of lists it can be, or as an exception
RECURSIVE Discover(_, _, _)
Discover(t, na, path_strs) ==
    IF path_strs = <<>> THEN [raised |-> FALSE, lists |-> {<<>>}]
    ELSE LET r == expand_paths(t, na, Head(path_strs))
             rest == Discover(t, na, Tail(path_strs))
         IN  IF r.raised \/ rest.raised THEN [raised |-> TRUE, lists |-> {}]
             ELSE [raised |-> FALSE,
                   lists |-> {h \o q : h \in SeqsOfBag(r.paths), q \in rest.lists}]

\* line 357-361: one collect_metrics job for d in (True, False) for p in paths
AggJobs(paths) ==
    [i \in 1..(2 * Len(paths)) |->
        IF i <= Len(paths) THEN [path |-> paths[i], discretize |-> TRUE]
        ELSE [path |-> paths[i - Len(paths)], discretize |-> FALSE]]

NoRow == [uuid |-> 0, path |-> <<>>, discretize |-> FALSE]

\* a table that an earlier aggregation left
OldCsv == [exists |-> TRUE, rows |-> <<NoRow>>]

\* what collect_metrics can raise: a file cannot be opened, the weights do
\* not load
ExtractKinds == {"OSError", "RuntimeError"}

InitAggregate ==
    /\ InitNoBatch
    /\ call = None
    /\ ret = None
    /\ tree = {}
    /\ scanned = None
    /\ noaccess = {}
    /\ agg = None
    /\ csv \in {NoCsv, OldCsv}

AggFrame == UNCHANGED <<call, ret, tree, scanned, noaccess>> /\ NoBatchFrame

Roots == UNION {[1..n -> Paths(tree) \cup {<<>>}] : n \in 1..MaxRoots}

\* line 355-361: the artifacts are discovered and the jobs are built (the
\* calls that discover up to MaxPaths paths are followed)
AggDiscover ==
    /\ agg = None
    /\ \E path_strs \in Roots, n_jobs \in 1..MaxWorkers :
        LET d == Discover(tree, noaccess, path_strs)
        IN  IF d.raised
            THEN agg' = [fn |-> "aggregate_results", at |-> "raised",
                         path_strs |-> path_strs, n_jobs |-> n_jobs, paths |-> <<>>,
                         jobs |-> <<>>, st |-> <<>>, results |-> <<>>,
                         exc |-> [job |-> 0, kind |-> "PermissionError"],
                         uuids |-> 0, csv0 |-> csv]
            ELSE \E paths \in {q \in d.lists : Len(q) <= MaxPaths} :
                 agg' = [fn |-> "aggregate_results", at |-> "l362",
                         path_strs |-> path_strs, n_jobs |-> n_jobs, paths |-> paths,
                         jobs |-> AggJobs(paths),
                         st |-> [i \in 1..(2 * Len(paths)) |-> "queued"],
                         results |-> [i \in 1..(2 * Len(paths)) |-> NoRow],
                         exc |-> NoExc, uuids |-> 0, csv0 |-> csv]
    /\ UNCHANGED csv
    /\ AggFrame

AggIdx == IF agg.fn = "aggregate_results" THEN DOMAIN agg.jobs ELSE {}

\* line 362: Parallel hands the next job to a free worker
AggStartJob(i) ==
    /\ agg.fn = "aggregate_results" /\ agg.at = "l362"
    /\ agg.st[i] = "queued"
    /\ \A k \in 1..(i - 1) : agg.st[k] # "queued"
    /\ Cardinality({k \in AggIdx : agg.st[k] = "running"}) < agg.n_jobs
    /\ agg.n_jobs = 1 => \A k \in AggIdx : agg.st[k] # "failed"
    /\ agg' = [agg EXCEPT !.st[i] = "running"]
    /\ UNCHANGED csv
    /\ AggFrame

\* collect_metrics returns its one-row frame, with a uuid4 of its own
\* (line 328): the k-th identifier drawn is written k
AggFinishJob(i) ==
    /\ agg.fn = "aggregate_results" /\ agg.at = "l362"
    /\ agg.st[i] = "running"
    /\ agg' = [agg EXCEPT !.st[i] = "done",
                          !.uuids = @ + 1,
                          !.results[i] = [uuid |-> agg.uuids + 1,
                                          path |-> agg.jobs[i].path,
                                          discretize |-> agg.jobs[i].discretize]]
    /\ UNCHANGED csv
    /\ AggFrame

\* collect_metrics raises; with one worker the call is made in the caller
\* and the exception leaves aggregate_results at once
AggFailJob(i) ==
    /\ agg.fn = "aggregate_results" /\ agg.at = "l362"
    /\ agg.st[i] = "running"
    /\ \E kind \in ExtractKinds :
        agg' = IF agg.n_jobs = 1
               THEN [agg EXCEPT !.st[i] = "failed", !.at = "raised",
                                !.exc = [job |-> i, kind |-> kind]]
               ELSE [agg EXCEPT !.st[i] = "failed",
                                !.exc = [job |-> i, kind |-> kind]]
    /\ UNCHANGED csv
    /\ AggFrame

\* line 362: Parallel re-raises the exception of a failed job; the jobs
\* still running are terminated with its workers
AggRaise ==
    /\ agg.fn = "aggregate_results" /\ agg.at = "l362"
    /\ \E i \in AggIdx : agg.st[i] = "failed"
    /\ agg' = [agg EXCEPT !.at = "raised",
                          !.st = [i \in AggIdx |->
                                    IF agg.st[i] = "running" THEN "killed" ELSE agg.st[i]]]
    /\ UNCHANGED csv
    /\ AggFrame

\* Parallel returns with only a part of the results
AllSettled == \A i \in AggIdx : agg.st[i] \in {"done", "failed"}

\* line 362: Parallel returns the list of all results, in the order of the jobs
AllExtracted == \A i \in AggIdx : agg.st[i] = "done"

\* line 363-364: pd.concat raises on an empty list; else the table is
\* written over data.csv
AggWrite ==
    /\ agg.fn = "aggregate_results" /\ agg.at = "l362"
    /\ AllExtracted
    /\ IF agg.jobs = <<>>
       THEN /\ agg' = [agg EXCEPT !.at = "raised",
                                  !.exc = [job |-> 0, kind |-> "ValueError"]]
            /\ UNCHANGED csv
       ELSE /\ agg' = [agg EXCEPT !.at = "returned"]
            /\ csv' = [exists |-> TRUE,
                       rows |-> agg.results]
    /\ AggFrame

NextAggregate ==
    \/ MkdirSome
    \/ TouchSome
    \/ AggDiscover
    \/ \E i \in AggIdx : AggStartJob(i)
    \/ \E i \in AggIdx : AggFinishJob(i)
    \/ \E i \in AggIdx : AggFailJob(i)
    \/ AggRaise
    \/ AggWrite

SpecAggregate == InitAggregate /\ [][NextAggregate]_vars

IsPrefix(p, x) == Len(p) <= Len(x) /\ SubSeq(x, 1, Len(p)) = p

\* the directories of the tree at and below root, at every depth
DirsUnder(t, root) == {x \in Paths(t) \cup {<<>>} : IsDir(t, x) /\ IsPrefix(root, x)}

HasEntry(t, p, name) == Append(p, name) \in Paths(t)
HasFileEntry(t, p, name) == [path |-> Append(p, name), dir |-> FALSE] \in t

Listable(t, na, root) ==
    {x \in DirsUnder(t, root) :
        \A q \in DirsUnder(t, root) : IsPrefix(q, x) => q \notin na}

\* C11: expand_paths never fails: a root that is no directory or does not
\* exist gives no match, and a directory that cannot be listed contributes
\* nothing while the rest of the tree is still scanned.
C11_NeverFails ==
    scanned.fn = "expand_paths" =>
        /\ ~scanned.raised
        /\ scanned.paths =
              SetToBag({x \in Listable(tree, noaccess, scanned.root) :
                           /\ HasEntry(tree, x, "best.pt")
                           /\ HasEntry(tree, x, "config.pkl")})

\* the artifacts a call of aggregate_results has discovered
Artifacts == {agg.paths[i] : i \in DOMAIN agg.paths}

RowsOf(path, discretize) ==
    {i \in DOMAIN csv.rows :
        csv.rows[i].path = path /\ csv.rows[i].discretize = discretize}

\* C12: the table a call of aggregate_results has written holds
\* |artifacts| x |variants| rows, no two rows with the same identifier, and
\* exactly one row for each pair of a discovered artifact and a variant.
C12_RowsMatchPairs ==
    (agg.fn = "aggregate_results" /\ agg.at = "returned") =>
        /\ csv.exists
        /\ Len(csv.rows) = Cardinality(Artifacts) * Cardinality(BOOLEAN)
        /\ \A i, k \in DOMAIN csv.rows : i # k => csv.rows[i].uuid # csv.rows[k].uuid
        /\ \A a \in Artifacts, d \in BOOLEAN : Cardinality(RowsOf(a, d)) = 1

C19_EachArtifactOnce ==
    agg.fn = "aggregate_results" =>
        /\ \A i, k \in DOMAIN agg.paths : i # k => agg.paths[i] # agg.paths[k]
        /\ agg.at = "returned" =>
              \A a \in Artifacts, d \in BOOLEAN : Cardinality(RowsOf(a, d)) = 1

\* ------------------------------------------------------------------------
\* Properties of the batch
\* ------------------------------------------------------------------------
DistinctDirs == \A i, k \in J : i # k => Dir(i) # Dir(k)

\* the model.learn of the attempt that wrote the file has returned
LearnedBy(tag) == IF tag.job = 0 THEN tag.ok ELSE tag.job \in learned

\* C1: the marker of a job directory exists only if the training call of the
\* attempt that produced what the directory holds has returned, and the
\* marker is the last thing that attempt writes (it has returned).
C1_MarkerProvesCompletion ==
    \A d \in Dirs :
        HasFile(d, "completed") =>
            \A n \in DOMAIN fs[d].files :
                /\ LearnedBy(fs[d].files[n])
                /\ fs[d].files[n].job # 0 => pc[fs[d].files[n].job] = "done"

\* C2: a run that returns has trained each job that had no marker exactly
\* once and no job that had one; a run that follows a run that returned
\* trains nothing.
C2_TrainsOncePerJob ==
    phase = "returned" =>
        \A j \in J :
            /\ calls[j] = IF marked0[j] THEN 0 ELSE 1
            /\ prevReturned => calls[j] = 0

\* C3: a job that found its directory without the marker has, once rmtree
\* is behind it, a directory that holds no file of an earlier attempt:
\* nothing is written and training does not start before the old tree is gone.
C3_StaleTreeDeleted ==
    \A j \in J :
        (entry[j] = "stale" /\ pc[j] \notin {"l143", "killed"} \cup ExcKinds) =>
            \A n \in DOMAIN fs[Dir(j)].files : fs[Dir(j)].files[n].job # 0

C3_Witness ==
    \E j \in J : entry[j] = "stale" /\ marked0[j] = FALSE /\ DistinctDirs
                  /\ pc[j] = "learning" /\ prevReturned = FALSE /\ ~Sequential

\* C4: a do_run call that finds the marker returns having changed nothing
\* on the filesystem and without calling model.learn.
C4_SkipHasNoEffect ==
    \A j \in J :
        entry[j] = "marked" => ~wrote[j] /\ calls[j] = 0 /\ pc[j] = "done"

C4_Witness ==
    \E j \in J : entry[j] = "marked" /\ pc[j] = "done" /\ phase = "returned"

C6_NoSharedPath ==
    \A i, k \in J :
        (i # k /\ Active(i) /\ Active(k) /\ wrote[i] /\ wrote[k]) => Dir(i) # Dir(k)

\* C8: under Parallel with a budget above one, the jobs inside do_run, and so
\* the jobs inside model.learn, are never more than the budget.
C8_AtMostWWorkers ==
    (Len(jobs) > 1 /\ batch.n_jobs > 1) =>
        /\ Cardinality({j \in J : Active(j)}) <= batch.n_jobs
        /\ Cardinality({j \in J : InTraining(j)}) <= batch.n_jobs

C8_Witness ==
    /\ Len(jobs) > 1 /\ batch.n_jobs > 1
    /\ Cardinality({j \in J : InTraining(j)}) = batch.n_jobs
    /\ \E j \in J : pc[j] = "queued"

\* C9: with a budget of one, or a single job, a job is started only when the
\* job before it has returned, and no two jobs are running at once.
C9_StrictlySequential ==
    (batch.n_jobs = 1 \/ Len(jobs) = 1) =>
        /\ \A k \in 1..(Len(jobs) - 1) : pc[k + 1] # "queued" => pc[k] = "done"
        /\ Cardinality({j \in J : Active(j)}) <= 1

C9_Witness ==
    /\ batch.n_jobs = 1
    /\ Len(jobs) = MaxPoolJobs
    /\ pc[Len(jobs)] = "learning"

\* the model.learn call of the job has been made in the current run
TrainingStarted(j) ==
    pc[j] \in {"learning", "l169"} \/ (pc[j] = "done" /\ calls[j] = 1)

\* the file is in the directory of the job, written in full by the job
WrittenBy(j, name) ==
    HasFile(Dir(j), name) /\ fs[Dir(j)].files[name] = Tag(j, TRUE)

\* C16: whenever the training call of a job has started, config.txt and
\* config.pkl are in its directory, fully written by that job.
C16_ConfigPersistedBeforeTraining ==
    \A j \in J :
        TrainingStarted(j) => WrittenBy(j, "config.txt") /\ WrittenBy(j, "config.pkl")

\* a run that returned trained the jobs that had no marker when it began,
\* each once, and no other
SkipsExactlyMarked ==
    phase = "returned" => \A j \in J : calls[j] = IF marked0[j] THEN 0 ELSE 1

\* a marker that was there when the run began is still there
MarkersKept == \A j \in J : marked0[j] => HasFile(Dir(j), "completed")

AllMarked == \A j \in J : HasFile(Dir(j), "completed")

\* C17: a run of the batch skips exactly the jobs whose marker is present
\* and trains every other job, no marker of an earlier run is ever removed,
\* and once crashes and failures have stopped, invoking the batch again and
\* again leads to every job having its marker.
C17_ResumeCompletes == [](SkipsExactlyMarked /\ MarkersKept) /\ <>AllMarked

====
